---- MODULE Spec2Model ----
(***************************************************************************)
(* Revenue bridge engine of the revenue-analytics dashboard                *)
(* (src/main.py, calculate_revenue_bridge).                                *)
(*                                                                         *)
(* Revenue is modelled in whole currency units (integers).  A quotient     *)
(* computed by the code is kept exactly, as a record holding numerator     *)
(* and denominator, together with the IEEE special values a division by    *)
(* zero produces in pandas (inf, -inf, nan).                               *)
(***************************************************************************)
EXTENDS Integers, Sequences, FiniteSets, TLC

VARIABLES df, monthly_cols_bridge, pc, bridge_data, customer_analysis, bridge_metrics,
          columns, analysis_type, customer_column, messages, shown,
          top_n_list, top_customers_analysis, all_customers_sorted, top_customer_column,
          cache, parses

\* what calculate_revenue_bridge is called on and what it returns
bridge_vars ==
    <<df, monthly_cols_bridge, bridge_data, customer_analysis, bridge_metrics>>

\* what the pages of the dashboard read from the header and display
page_vars == <<columns, analysis_type, customer_column, messages, shown>>

\* the argument and the return values of analyze_individual_customers_q1
top_vars ==
    <<top_n_list, top_customers_analysis, all_customers_sorted, top_customer_column>>

\* the entries of st.cache_data and, for each file content, how often
\* pd.read_excel has parsed it
cache_vars == <<cache, parses>>

vars == <<bridge_vars, page_vars, top_vars, cache_vars, pc>>

(***************************************************************************)
(* Generic helpers on sequences                                            *)
(***************************************************************************)
Range(s) == {s[i] : i \in DOMAIN s}

RECURSIVE SumSeq(_)
SumSeq(s) == IF s = <<>> THEN 0 ELSE Head(s) + SumSeq(Tail(s))

(***************************************************************************)
(* Floating point values: a finite number n/d, or nan, inf, -inf           *)
(***************************************************************************)
Num(n) == [k |-> "num", n |-> n, d |-> 1]
NaN == [k |-> "nan", n |-> 0, d |-> 1]
PosInf == [k |-> "inf", n |-> 1, d |-> 1]
NegInf == [k |-> "-inf", n |-> 1, d |-> 1]

\* a / b on numpy values: a zero divisor gives nan or a signed infinity
TrueDiv(a, b) ==
    IF b # 0 THEN [k |-> "num", n |-> a, d |-> b]
    ELSE IF a = 0 THEN NaN
    ELSE IF a > 0 THEN PosInf ELSE NegInf

\* x * 100 on a float
Times100(x) == IF x.k = "num" THEN [x EXCEPT !.n = x.n * 100] ELSE x

\* Series.replace([np.inf, -np.inf], np.nan)
replace_inf(x) == IF x.k \in {"inf", "-inf"} THEN NaN ELSE x

\* Series.fillna(0)
fillna(x) == IF x.k = "nan" THEN Num(0) ELSE x

IsFinite(x) == x.k = "num" /\ x.d # 0
FloatEq(x, y) == IsFinite(x) /\ IsFinite(y) /\ x.n * y.d = y.n * x.d

(***************************************************************************)
(* The uploaded table.  A cell of a monthly column holds a number, a text  *)
(* that is no number, or nothing.  A customer identifier is null or a      *)
(* string, kept as its sequence of characters.                             *)
(***************************************************************************)
Number(v) == [t |-> "num", v |-> v]
Text == [t |-> "text", v |-> 0]
Empty == [t |-> "empty", v |-> 0]

Null == [null |-> TRUE, s |-> <<>>]
Str(s) == [null |-> FALSE, s |-> s]

\* pd.to_numeric(col, errors='coerce')
to_numeric(cell) == IF cell.t = "num" THEN Num(cell.v) ELSE NaN

\* str.strip(): leading and trailing whitespace removed
IsSpace(c) == c = " "

RECURSIVE lstrip(_)
lstrip(s) == IF s # <<>> /\ IsSpace(Head(s)) THEN lstrip(Tail(s)) ELSE s

RECURSIVE rstrip(_)
rstrip(s) ==
    IF s # <<>> /\ IsSpace(s[Len(s)]) THEN rstrip(SubSeq(s, 1, Len(s) - 1)) ELSE s

strip(s) == rstrip(lstrip(s))

(***************************************************************************)
(* calculate_revenue_bridge, step by step                                  *)
(***************************************************************************)
\* q1_cols = monthly_cols[:3], q2_cols = monthly_cols[3:6]
Slice(s, from, to) ==
    IF from > Len(s) THEN <<>>
    ELSE SubSeq(s, from, IF to < Len(s) THEN to ELSE Len(s))

\* mutant of q1_cols: the slice one column short, monthly_cols[:2]
q1_cols_short(monthly_cols) == Slice(monthly_cols, 1, 2)

q1_cols(monthly_cols) == Slice(monthly_cols, 1, 3)
\* mutant of q2_cols: the slice one column short, monthly_cols[3:5]
q2_cols_short(monthly_cols) == Slice(monthly_cols, 4, 5)

\* mutant of q2_cols: the slice is not closed, monthly_cols[3:]
q2_cols_rest(monthly_cols) == Slice(monthly_cols, 4, Len(monthly_cols))

q2_cols(monthly_cols) == Slice(monthly_cols, 4, 6)

\* mutant of customer_df: a row with a missing or non-numeric month cell is lost
customer_df_rows_lost(table, monthly_cols) ==
    LET kept == SelectSeq(table, LAMBDA r : \A j \in DOMAIN r.m : r.m[j].t = "num")
    IN  [i \in DOMAIN kept |->
            [Customer |-> kept[i].Customer,
             m |-> [j \in DOMAIN monthly_cols |-> kept[i].m[monthly_cols[j]].v]]]

\* customer_df = df[[customer_column] + q1_cols + q2_cols].copy(), each monthly
\* column converted by to_numeric(errors='coerce').fillna(0)
customer_df(table, monthly_cols) ==
    LET cols == q1_cols(monthly_cols) \o q2_cols(monthly_cols)
    IN  [i \in DOMAIN table |->
            [Customer |-> table[i].Customer,
             m |-> [j \in DOMAIN cols |-> fillna(to_numeric(table[i].m[cols[j]])).n]]]

\* customer_df.dropna(subset=[customer_column])
dropna(rows) == SelectSeq(rows, LAMBDA r : ~r.Customer.null)

\* mutant of drop_blank: the filter is missing
drop_blank_missing(rows) == rows

\* mutant of drop_blank: the identifier compared without strip()
drop_blank_unstripped(rows) == SelectSeq(rows, LAMBDA r : r.Customer.s # <<>>)

\* customer_df[customer_df[customer_column].astype(str).str.strip() != '']
drop_blank(rows) == SelectSeq(rows, LAMBDA r : strip(r.Customer.s) # <<>>)

\* order of the group keys: groupby sorts them (strings compare by code point)
Ord(c) == CASE c = " " -> 32 [] c = "A" -> 65 [] c = "B" -> 66 [] c = "C" -> 67
            [] c = "D" -> 68 [] c = "E" -> 69 [] c = "F" -> 70 [] c = "G" -> 71
            [] OTHER -> 90

RECURSIVE StrLess(_, _)
StrLess(a, b) ==
    IF b = <<>> THEN FALSE
    ELSE IF a = <<>> THEN TRUE
    ELSE IF Ord(Head(a)) # Ord(Head(b)) THEN Ord(Head(a)) < Ord(Head(b))
    ELSE StrLess(Tail(a), Tail(b))

RECURSIVE SortKeys(_)
SortKeys(keys) ==
    IF keys = {} THEN <<>>
    ELSE LET least == CHOOSE k \in keys : \A o \in keys \ {k} : StrLess(k.s, o.s)
         IN  <<least>> \o SortKeys(keys \ {least})

\* one column of one group, summed over the rows of the key
group_sum(rows, key, j) ==
    SumSeq([i \in DOMAIN rows |-> IF rows[i].Customer = key THEN rows[i].m[j] ELSE 0])

\* the grouped table for the sorted keys
grouped(rows, keys) ==
    [g \in DOMAIN keys |->
        [Customer |-> keys[g],
         m |-> [j \in DOMAIN rows[1].m |-> group_sum(rows, keys[g], j)]]]

\* the keys in the order of their first row
RECURSIVE FirstSeen(_)
FirstSeen(rows) ==
    IF rows = <<>> THEN <<>>
    ELSE <<Head(rows).Customer>>
            \o FirstSeen(SelectSeq(Tail(rows), LAMBDA r : r.Customer # Head(rows).Customer))

\* mutant of groupby_sum: groupby(sort=False), the keys in the order of the rows
groupby_sum_unsorted(rows) == grouped(rows, FirstSeen(rows))

\* mutant of groupby_sum: the rows are not grouped, every row stays a record
groupby_sum_ungrouped(rows) == rows

\* customer_df.groupby(customer_column).sum(): one row per distinct key, the
\* keys sorted, each column summed over the rows of the key
groupby_sum(rows) == grouped(rows, SortKeys({rows[i].Customer : i \in DOMAIN rows}))

\* customer_grouped['Q1_Total'] = customer_grouped[q1_cols].sum(axis=1), and Q2
quarter_totals(g, n1) ==
    [i \in DOMAIN g |->
        [Customer |-> g[i].Customer,
         Q1_Total |-> SumSeq(Slice(g[i].m, 1, n1)),
         Q2_Total |-> SumSeq(Slice(g[i].m, n1 + 1, Len(g[i].m)))]]

\* customer_grouped, with its Q1_Total and Q2_Total columns
customer_grouped(table, monthly_cols) ==
    quarter_totals(groupby_sum(drop_blank(dropna(customer_df(table, monthly_cols)))),
                   Len(q1_cols(monthly_cols)))

\* a Series indexed by customer: the column col of the grouped table
Column(g, col) ==
    [i \in DOMAIN g |->
        [Customer |-> g[i].Customer,
         v |-> IF col = "Q1_Total" THEN g[i].Q1_Total ELSE g[i].Q2_Total]]

Values(series) == [i \in DOMAIN series |-> series[i].v]

\* series[mask], the mask a boolean Series over the same index
Masked(series, mask) ==
    LET keep == SelectSeq([i \in DOMAIN series |-> i], LAMBDA i : mask[i])
    IN  [j \in DOMAIN keep |-> series[keep[j]]]

\* mutant of churned_mask: the opening revenue is not tested
churned_mask_closing_zero(q1, q2) == q2 = 0

\* churned_customers = q1_revenue[(q1_revenue > 0) & (q2_revenue == 0)]
churned_mask(q1, q2) == q1 > 0 /\ q2 = 0

\* new_customers_data = q2_revenue[(q1_revenue == 0) & (q2_revenue > 0)]
new_mask(q1, q2) == q1 = 0 /\ q2 > 0

\* mutant of expansion_mask: every increase counts, new customers included
expansion_mask_any_increase(q1, q2) == q2 - q1 > 0

\* expansion_data[(expansion_data > 0) & (q1_revenue > 0)]
expansion_mask(q1, q2) == q2 - q1 > 0 /\ q1 > 0

\* mutant of contraction_mask: every decrease counts, churned customers included
contraction_mask_any_decrease(q1, q2) == q2 - q1 < 0

\* expansion_data[(expansion_data < 0) & (q2_revenue > 0)]
contraction_mask(q1, q2) == q2 - q1 < 0 /\ q2 > 0

\* mutant of churn_of: the sum is not negated
churn_of_unsigned(churned_customers) == SumSeq(Values(churned_customers))

\* churn = -churned_customers.sum()
churn_of(churned_customers) == 0 - SumSeq(Values(churned_customers))

\* mutant of RatioOrZero: the division is not guarded
RatioUnguarded(x, opening_revenue) == TrueDiv(x, opening_revenue)

\* x / opening_revenue if opening_revenue != 0 else 0
RatioOrZero(x, opening_revenue) ==
    IF opening_revenue # 0 THEN TrueDiv(x, opening_revenue) ELSE Num(0)

\* mutant of nrr: the contraction is left out of the numerator
nrr_without_contraction(opening_revenue, churn, expansion, contraction) ==
    RatioOrZero(opening_revenue + churn + expansion, opening_revenue)

\* nrr = (opening_revenue + churn + expansion + contraction) / opening_revenue
nrr(opening_revenue, churn, expansion, contraction) ==
    RatioOrZero(opening_revenue + churn + expansion + contraction, opening_revenue)

\* mutant of grr: the churn is left out of the numerator
grr_without_churn(opening_revenue, churn, contraction) ==
    RatioOrZero(opening_revenue + contraction, opening_revenue)

\* grr = (opening_revenue + churn + contraction) / opening_revenue
grr(opening_revenue, churn, contraction) ==
    RatioOrZero(opening_revenue + churn + contraction, opening_revenue)

\* mutant of Change_Pct: the infinities are not replaced before fillna(0)
Change_Pct_inf_kept(q1, q2) == fillna(Times100(TrueDiv(q2 - q1, q1)))

\* 'Change_Pct': ((Q2 - Q1) / Q1 * 100).replace([np.inf, -np.inf], np.nan).fillna(0)
Change_Pct(q1, q2) == fillna(replace_inf(Times100(TrueDiv(q2 - q1, q1))))

\* mutant of categorize_customer: the expansion test lacks Q1_Revenue > 0 and
\* comes before the new-customer test
categorize_customer_change_first(row) ==
    IF row.Q1_Revenue > 0 /\ row.Q2_Revenue = 0 THEN "Churned"
    ELSE IF row.Change > 0 THEN "Expansion"
    ELSE IF row.Q1_Revenue = 0 /\ row.Q2_Revenue > 0 THEN "New Customer"
    ELSE IF row.Change < 0 /\ row.Q2_Revenue > 0 THEN "Contraction"
    ELSE "Stable"

\* def categorize_customer(row), on a row of customer_analysis
categorize_customer(row) ==
    IF row.Q1_Revenue > 0 /\ row.Q2_Revenue = 0 THEN "Churned"
    ELSE IF row.Q1_Revenue = 0 /\ row.Q2_Revenue > 0 THEN "New Customer"
    ELSE IF row.Change > 0 /\ row.Q1_Revenue > 0 THEN "Expansion"
    ELSE IF row.Change < 0 /\ row.Q2_Revenue > 0 THEN "Contraction"
    ELSE "Stable"

\* the four tests of categorize_customer with their labels, in the order of the
\* if / elif chain
categorize_rules(row) ==
    <<[test |-> row.Q1_Revenue > 0 /\ row.Q2_Revenue = 0, label |-> "Churned"],
      [test |-> row.Q1_Revenue = 0 /\ row.Q2_Revenue > 0, label |-> "New Customer"],
      [test |-> row.Change > 0 /\ row.Q1_Revenue > 0, label |-> "Expansion"],
      [test |-> row.Change < 0 /\ row.Q2_Revenue > 0, label |-> "Contraction"]>>

\* customer_analysis = pd.DataFrame({...}); customer_analysis['Segment'] =
\* customer_analysis.apply(categorize_customer, axis=1).  On a frame without rows
\* apply calls the function on no row and yields an empty Series.
\* a row of pd.DataFrame({'Customer', 'Q1_Revenue', 'Q2_Revenue', 'Change', 'Change_Pct'})
analysis_row(customer, q1, q2) ==
    [Customer |-> customer,
     Q1_Revenue |-> q1,
     Q2_Revenue |-> q2,
     Change |-> q2 - q1,
     Change_Pct |-> Change_Pct(q1, q2)]

\* customer_analysis['Segment'] = ...: the row with its new column
with_segment(row, segment) ==
    [Customer |-> row.Customer,
     Q1_Revenue |-> row.Q1_Revenue,
     Q2_Revenue |-> row.Q2_Revenue,
     Change |-> row.Change,
     Change_Pct |-> row.Change_Pct,
     Segment |-> segment]

\* customer_analysis.apply(categorize_customer, axis=1), on one row
apply_categorize(row) == with_segment(row, categorize_customer(row))

\* the per-customer table, one row per row of the grouped table; a grouped
\* table without rows gives a table without rows
customer_analysis_of(g) ==
    [i \in DOMAIN g |->
        apply_categorize(analysis_row(g[i].Customer, g[i].Q1_Total, g[i].Q2_Total))]

\* Series.nlargest(n) / Series.nsmallest(n), keep='first': the n largest
\* (smallest) values in descending (ascending) order, equal values in the order
\* of the Series
RECURSIVE TakeBest(_, _, _)
TakeBest(series, n, largest) ==
    IF n = 0 \/ series = <<>> THEN <<>>
    ELSE LET Better(a, b) == IF largest THEN a > b ELSE a < b
             best == CHOOSE i \in DOMAIN series :
                        /\ \A j \in DOMAIN series : ~Better(series[j].v, series[i].v)
                        /\ \A j \in 1..(i - 1) : series[j].v # series[i].v
             rest == [j \in 1..(Len(series) - 1) |->
                        IF j < best THEN series[j] ELSE series[j + 1]]
         IN  <<series[best]>> \o TakeBest(rest, n - 1, largest)

TopK == 5

\* the n best values, equal values in the reverse order of the Series
RECURSIVE TakeBestLast(_, _, _)
TakeBestLast(series, n, largest) ==
    IF n = 0 \/ series = <<>> THEN <<>>
    ELSE LET Better(a, b) == IF largest THEN a > b ELSE a < b
             best == CHOOSE i \in DOMAIN series :
                        /\ \A j \in DOMAIN series : ~Better(series[j].v, series[i].v)
                        /\ \A j \in (i + 1)..Len(series) : series[j].v # series[i].v
             rest == [j \in 1..(Len(series) - 1) |->
                        IF j < best THEN series[j] ELSE series[j + 1]]
         IN  <<series[best]>> \o TakeBestLast(rest, n - 1, largest)

\* mutant of nlargest: keep='last'
nlargest_keep_last(series, n) == TakeBestLast(series, n, TRUE)

nlargest(series, n) == TakeBest(series, n, TRUE)
nsmallest(series, n) == TakeBest(series, n, FALSE)

\* mutant of opening_revenue: the largest total instead of the sum, max()
opening_revenue_largest(g) ==
    IF g = <<>> THEN 0
    ELSE CHOOSE v \in Range(Values(Column(g, "Q1_Total"))) :
            \A w \in Range(Values(Column(g, "Q1_Total"))) : w <= v

\* opening_revenue = customer_grouped['Q1_Total'].sum(), closing_revenue likewise
opening_revenue(g) == SumSeq(Values(Column(g, "Q1_Total")))
closing_revenue(g) == SumSeq(Values(Column(g, "Q2_Total")))

\* churned_customers = q1_revenue[(q1_revenue > 0) & (q2_revenue == 0)]
churned_customers(g) ==
    Masked(Column(g, "Q1_Total"),
           [i \in DOMAIN g |-> churned_mask(g[i].Q1_Total, g[i].Q2_Total)])

\* new_customers_data = q2_revenue[(q1_revenue == 0) & (q2_revenue > 0)]
new_customers_data(g) ==
    Masked(Column(g, "Q2_Total"),
           [i \in DOMAIN g |-> new_mask(g[i].Q1_Total, g[i].Q2_Total)])

\* expansion_data = q2_revenue - q1_revenue
expansion_data(g) ==
    [i \in DOMAIN g |-> [Customer |-> g[i].Customer, v |-> g[i].Q2_Total - g[i].Q1_Total]]

\* mutant of expanded: the mask is missing, every customer's delta is ranked
expanded_unmasked(g) == expansion_data(g)

\* expansion_data[(expansion_data > 0) & (q1_revenue > 0)]
expanded(g) ==
    Masked(expansion_data(g),
           [i \in DOMAIN g |-> expansion_mask(g[i].Q1_Total, g[i].Q2_Total)])

\* expansion_data[(expansion_data < 0) & (q2_revenue > 0)]
contracted(g) ==
    Masked(expansion_data(g),
           [i \in DOMAIN g |-> contraction_mask(g[i].Q1_Total, g[i].Q2_Total)])

\* bridge_data = {...}
bridge_data_of(opening, churn, expansion, contraction, new_customers, closing) ==
    [Opening_Revenue_Q1 |-> opening,
     Churn |-> churn,
     Expansion |-> expansion,
     Contraction |-> contraction,
     New_Customers |-> new_customers,
     Closing_Revenue_Q2 |-> closing,
     Net_Change |-> closing - opening,
     NRR |-> nrr(opening, churn, expansion, contraction),
     GRR |-> grr(opening, churn, contraction)]

\* bridge_metrics = {...}
bridge_metrics_of(churned, new, expansions, contractions) ==
    [churned_customers_count |-> Len(churned),
     new_customers_count |-> Len(new),
     expansion_customers_count |-> Len(expansions),
     contraction_customers_count |-> Len(contractions),
     churned_customers_list |-> churned,
     new_customers_list |-> new,
     top_expansion_customers |-> nlargest(expansions, TopK),
     top_contraction_customers |-> nsmallest(contractions, TopK)]

\* the three values returned, from the grouped table
bridge_of(g) ==
    [bridge_data |->
        bridge_data_of(opening_revenue(g), churn_of(churned_customers(g)),
                       SumSeq(Values(expanded(g))), SumSeq(Values(contracted(g))),
                       SumSeq(Values(new_customers_data(g))), closing_revenue(g)),
     customer_analysis |-> customer_analysis_of(g),
     bridge_metrics |->
        bridge_metrics_of(churned_customers(g), new_customers_data(g), expanded(g),
                          contracted(g))]

\* def calculate_revenue_bridge(df, customer_column, monthly_cols)
calculate_revenue_bridge(table, monthly_cols) ==
    bridge_of(customer_grouped(table, monthly_cols))

\* mutant of df_after_call: customer_df is the caller's frame itself, so the
\* converted monthly columns are written into it
df_written_through(table, monthly_cols) ==
    LET cols == Range(q1_cols(monthly_cols) \o q2_cols(monthly_cols))
    IN  [i \in DOMAIN table |->
            [Customer |-> table[i].Customer,
             m |-> [j \in DOMAIN table[i].m |->
                      IF j \in cols
                      THEN Number(fillna(to_numeric(table[i].m[j])).n)
                      ELSE table[i].m[j]]]]

\* the caller's frame after the call: customer_df is a copy of the selected
\* columns, and the conversions, the row filters and the new columns are all
\* assigned to customer_df, customer_grouped and customer_analysis
df_after_call(table, monthly_cols) == table

\* mutant of monthly_cols_after_call: the quarters are cut out of the list
monthly_cols_consumed(monthly_cols) == Slice(monthly_cols, 7, Len(monthly_cols))

\* the caller's list after the call: monthly_cols[:3] and monthly_cols[3:6]
\* are new lists, the list itself is only read
monthly_cols_after_call(monthly_cols) == monthly_cols

(***************************************************************************)
(* The header of the uploaded table.  A column is a pd.Timestamp or a      *)
(* string; year and month hold the date pd.to_datetime reads from it (year *)
(* 0: no date), has2024 tells whether str(col) contains '2024', month is   *)
(* also the place of the column's cell in a row of the table.              *)
(***************************************************************************)
None == "<None>"

Col(name, dtype) ==
    [name |-> name, ts |-> FALSE, year |-> 0, month |-> 0, has2024 |-> FALSE,
     dtype |-> dtype]

\* a monthly column read by pd.read_excel as a Timestamp of the year 2024
MonthCol(m) ==
    [name |-> "", ts |-> TRUE, year |-> 2024, month |-> m, has2024 |-> TRUE,
     dtype |-> "float64"]

\* a monthly column whose header is a date string of the year 2024
DateStrCol(m) ==
    [name |-> "2024-MM-01", ts |-> FALSE, year |-> 2024, month |-> m, has2024 |-> TRUE,
     dtype |-> "float64"]

\* a Timestamp column of another year
OldCol ==
    [name |-> "", ts |-> TRUE, year |-> 2023, month |-> 12, has2024 |-> FALSE,
     dtype |-> "float64"]

\* a string column that mentions 2024 and is no date
PlanCol ==
    [name |-> "Plan 2024", ts |-> FALSE, year |-> 0, month |-> 0, has2024 |-> TRUE,
     dtype |-> "float64"]

\* a column the dashboard drops after reading the file
EntityCol ==
    [name |-> "Entity April 2024", ts |-> FALSE, year |-> 0, month |-> 0,
     has2024 |-> TRUE, dtype |-> "object"]

columns_to_drop == {"Entity\nUpto Mar 2024", "Entity April 2024", "Entity grouped", "S. no."}

\* mutant of drop_columns: nothing is dropped
drop_columns_none(cols) == cols

\* df_original.drop(columns=[col for col in columns_to_drop if col in df_original.columns])
drop_columns(cols) == SelectSeq(cols, LAMBDA c : c.ts \/ c.name \notin columns_to_drop)

\* isinstance(col, pd.Timestamp) and col.year == 2024, or a string with '2024'
\* that pd.to_datetime(col, errors='coerce') reads as a date of 2024
is_month_of_2024(c) ==
    \/ c.ts /\ c.year = 2024
    \/ ~c.ts /\ c.has2024 /\ c.year = 2024

\* the columns appended to monthly_cols_bridge, in the order of the header;
\* when there is none, every column whose str() contains '2024'
monthly_cols_found(cols) ==
    IF SelectSeq(cols, is_month_of_2024) # <<>>
    THEN SelectSeq(cols, is_month_of_2024)
    ELSE SelectSeq(cols, LAMBDA c : c.has2024)

\* the order of the strings that name the columns
NameRank(name) ==
    CASE name = "" -> 0 [] name = "2024-MM-01" -> 1 [] name = "Plan 2024" -> 2
      [] OTHER -> 3

\* the key sorted() compares: the date, or the column itself
SortKey(c, by) == IF by = "date" THEN c.year * 12 + c.month ELSE NameRank(c.name)

\* sorted(cols, key=...): stable, ascending
RECURSIVE sorted(_, _)
sorted(cols, by) ==
    IF cols = <<>> THEN <<>>
    ELSE LET last == cols[Len(cols)]
             front == sorted(SubSeq(cols, 1, Len(cols) - 1), by)
             p == Cardinality({i \in DOMAIN front : SortKey(front[i], by) <= SortKey(last, by)})
         IN  SubSeq(front, 1, p) \o <<last>> \o SubSeq(front, p + 1, Len(front))

\* mutant of monthly_cols_sorted: the columns stay in the order of the header
monthly_cols_unsorted(cols) == monthly_cols_found(cols)

\* try: sorted(monthly_cols_bridge, key=lambda x: pd.to_datetime(str(x)))
\* except: sorted(monthly_cols_bridge); to_datetime raises on a string without a date
monthly_cols_sorted(cols) ==
    IF \A c \in Range(monthly_cols_found(cols)) : c.year # 0
    THEN sorted(monthly_cols_found(cols), "date")
    ELSE sorted(monthly_cols_found(cols), "name")

\* the columns as the keys the engine selects cells with
Keys(cols) == [i \in DOMAIN cols |-> cols[i].month]

\* for col in possible_customer_cols: if col in df.columns: ...; break
RECURSIVE first_listed(_, _)
first_listed(possible, cols) ==
    IF possible = <<>> THEN None
    ELSE IF \E i \in DOMAIN cols : ~cols[i].ts /\ cols[i].name = Head(possible)
    THEN Head(possible)
    ELSE first_listed(Tail(possible), cols)

\* for col in df.columns: if df[col].dtype == 'object' and col not in [...]: ...; break
first_object_column(cols, excluded) ==
    IF \E i \in DOMAIN cols : cols[i].dtype = "object" /\ cols[i].name \notin excluded
    THEN cols[CHOOSE i \in DOMAIN cols :
                /\ cols[i].dtype = "object" /\ cols[i].name \notin excluded
                /\ \A j \in 1..(i - 1) :
                      ~(cols[j].dtype = "object" /\ cols[j].name \notin excluded)].name
    ELSE None

find_customer_column(cols, possible, excluded) ==
    IF first_listed(possible, cols) # None THEN first_listed(possible, cols)
    ELSE first_object_column(cols, excluded)

\* possible_customer_cols of the Revenue Bridge flow
possible_customer_cols ==
    <<"Customer", "Client", "Customer Name", "Client Name", "Company", "Company Name",
      "Entity", "Account">>

\* possible_customer_cols of analyze_individual_customers_q1
possible_customer_cols_q1 == possible_customer_cols \o <<"Customer_Name", "Client_Name">>

\* mutant of customer_column_bridge: the first column of dtype object whatever
\* the header names
customer_column_first_object(cols) == first_object_column(cols, {})

\* the customer column of the Revenue Bridge flow
customer_column_bridge(cols) ==
    find_customer_column(cols, possible_customer_cols, {"Country", "Industry"})

\* the customer column of analyze_individual_customers_q1
customer_column_q1(cols) ==
    find_customer_column(cols, possible_customer_cols_q1,
                         {"Country", "Industry", "Geography"})

(***************************************************************************)
(* The ratios the Revenue Bridge page and the preview tab derive from the  *)
(* bridge, as a set of (metric, value) pairs                               *)
(***************************************************************************)
Abs(x) == IF x < 0 THEN 0 - x ELSE x

Metric(name, value) == [metric |-> name, value |-> value]

\* delta=f"{(net_change / bridge_data['Opening_Revenue_Q1']):.1%}"
net_change_delta(bd) == TrueDiv(bd.Net_Change, bd.Opening_Revenue_Q1)

\* churn_rate = abs(bridge_data['Churn']) / bridge_data['Opening_Revenue_Q1']
churn_rate(bd) == TrueDiv(Abs(bd.Churn), bd.Opening_Revenue_Q1)

\* bridge_summary['% of Q1'] = bridge_summary['Amount'] / Opening_Revenue_Q1 * 100
percent_of_q1(bd) ==
    {Metric(c, Times100(TrueDiv(bd[c], bd.Opening_Revenue_Q1))) :
        c \in {"Opening_Revenue_Q1", "Churn", "Expansion", "Contraction", "New_Customers",
                "Closing_Revenue_Q2"}}

\* the ratios shown by the Revenue Bridge page
bridge_page_ratios(bd) ==
    {Metric("Net Revenue Change", net_change_delta(bd)),
     Metric("Churn Rate", churn_rate(bd))} \cup percent_of_q1(bd)

\* the ratio shown by the preview tab of the Geography and Industry pages
preview_ratios(bd) == {Metric("Net Revenue Change", net_change_delta(bd))}

(***************************************************************************)
(* analyze_individual_customers_q1: the customers ranked by Q1 revenue     *)
(***************************************************************************)
\* customer_df = df[[customer_column] + q1_cols].copy(), the columns converted
customer_df_q1(table, q1) ==
    [i \in DOMAIN table |->
        [Customer |-> table[i].Customer,
         m |-> [j \in DOMAIN q1 |-> fillna(to_numeric(table[i].m[q1[j]])).n]]]

\* customer_grouped['Q1_Total'], a Series indexed by customer
q1_total(table, monthly_cols) ==
    LET g == groupby_sum(drop_blank(dropna(customer_df_q1(table, q1_cols(monthly_cols)))))
    IN  [i \in DOMAIN g |-> [Customer |-> g[i].Customer, v |-> SumSeq(g[i].m)]]

\* customer_grouped['Q1_Total'].sort_values(ascending=False): the sort is not
\* stable, equal totals can come in any order
sort_values_descending(series) ==
    {s \in [DOMAIN series -> Range(series)] :
        /\ \A i, j \in DOMAIN series : s[i] = s[j] => i = j
        /\ \A i, j \in DOMAIN series : i < j => s[i].v >= s[j].v}

\* customer_q1_sorted.head(n)
head(series, n) == Slice(series, 1, n)

\* mutant of percentage_of_total: the share of the customers left out
percentage_of_rest(top_sum, total) ==
    IF total > 0 THEN Times100(TrueDiv(total - top_sum, total)) ELSE Num(0)

\* (top_n_customers.sum() / total_q1_revenue) * 100 if total_q1_revenue > 0 else 0
percentage_of_total(top_sum, total) ==
    IF total > 0 THEN Times100(TrueDiv(top_sum, total)) ELSE Num(0)

\* top_customers_analysis[n] = {...}
top_n_entry(customer_q1_sorted, n) ==
    [customers |-> head(customer_q1_sorted, n),
     total_revenue |-> SumSeq(Values(head(customer_q1_sorted, n))),
     percentage_of_total |->
        percentage_of_total(SumSeq(Values(head(customer_q1_sorted, n))),
                            SumSeq(Values(customer_q1_sorted))),
     count |-> Len(head(customer_q1_sorted, n))]

\* for n in top_n_list: top_customers_analysis[n] = {...}
top_customers_analysis_of(customer_q1_sorted, n_list) ==
    [n \in Range(n_list) |-> top_n_entry(customer_q1_sorted, n)]

\* the analysis before analyze_individual_customers_q1 has returned
NoAnalysis == top_customers_analysis_of(<<>>, <<>>)

(***************************************************************************)
(* Inputs: the tables a caller can pass                                    *)
(***************************************************************************)
MaxRows == 3

\* the six monthly columns the dashboard passes, in date order
MonthlyCols == <<1, 2, 3, 4, 5, 6>>

CustomerIds == {Str(<<"A">>), Str(<<"B">>), Str(<<"C">>)}

\* identifiers of rows the code drops: null, and a whitespace-only string
BlankIds == {Null, Str(<<" ">>)}

\* the six month cells of a row: (Q1, Q2) sums (1,0) (0,1) (1,2) (2,1) (0,0) (-1,0)
RowMonths ==
    {<<Number(1), Number(0), Number(0), Number(0), Number(0), Number(0)>>,
     <<Number(0), Text, Number(0), Number(0), Number(1), Number(0)>>,
     <<Number(0), Number(1), Number(0), Number(1), Empty, Number(1)>>,
     <<Number(1), Number(0), Number(1), Text, Number(1), Number(0)>>,
     <<Empty, Number(0), Number(0), Number(0), Number(0), Empty>>,
     <<Number(0), Number(0 - 1), Number(0), Number(0), Number(0), Number(0)>>}

\* the month cells of the rows without a customer: (Q1, Q2) sums (1,0), (1,2)
BlankRowMonths ==
    {<<Number(1), Number(0), Number(0), Number(0), Number(0), Number(0)>>,
     <<Number(0), Number(1), Number(0), Number(1), Empty, Number(1)>>}

Rows ==
    [Customer : CustomerIds, m : RowMonths] \cup [Customer : BlankIds, m : BlankRowMonths]

Row(id, q1, q2) ==
    [Customer |-> Str(<<id>>),
     m |-> <<Number(0), Number(0), Number(q1), Number(0), Number(0), Number(q2)>>]

\* Example A of the specification
ExampleA ==
    <<Row("A", 100, 0), Row("B", 0, 50), Row("C", 100, 150), Row("D", 100, 80),
      Row("E", 100, 100)>>

Tables == UNION {[1..n -> Rows] : n \in 0..MaxRows} \cup {ExampleA}

NoResult == calculate_revenue_bridge(<<>>, MonthlyCols)

(***************************************************************************)
(* Inputs for the rankings: more customers than the rankings keep, one row *)
(* each, the rows in descending order of the identifiers                   *)
(***************************************************************************)
MaxRanked == 6

RankedIds == <<"G", "F", "E", "D", "C", "B", "A">>

\* (opening, closing) of a ranked customer: expansions by 1 and 2, contractions
\* by 1 and 2, a new customer with the largest increase
RankedRevenues == {<<1, 2>>, <<1, 3>>, <<2, 1>>, <<3, 1>>, <<0, 3>>}

\* the table of the ranked customers with the (opening, closing) pairs f
RankedTable(f) == [i \in DOMAIN f |-> Row(RankedIds[i], f[i][1], f[i][2])]

(***************************************************************************)
(* Inputs with signed revenues: one row per customer, every sign of the    *)
(* opening and of the closing revenue                                      *)
(***************************************************************************)
MaxCustomers == 3

\* (opening, closing) of a customer: every pair of signs, an expansion and a
\* contraction
SignedRevenues == {<<q1, q2>> : q1, q2 \in {0 - 1, 0, 1}} \cup {<<1, 2>>, <<2, 1>>}

(***************************************************************************)
(* Inputs with more than six monthly columns: a seventh month after the    *)
(* two quarters                                                            *)
(***************************************************************************)
MaxWideRows == 2

WideMonthlyCols == <<1, 2, 3, 4, 5, 6, 7>>

\* what the cell of a later month can hold
LateCells == {Number(0), Number(5), Text}

WideRows ==
    {[Customer |-> Str(<<id>>),
      m |-> <<Number(0), Number(0), Number(q1), Empty, Number(0), Number(q2), late>>] :
        id \in {"A", "B"}, q1 \in {0, 1}, q2 \in {0, 1, 2}, late \in LateCells}

(***************************************************************************)
(* Inputs of the dashboard pages: headers with up to MaxIdColumns columns  *)
(* before up to MaxMonths monthly columns, and a few small tables          *)
(***************************************************************************)
MaxIdColumns == 3

MaxMonths == 7

IdColumns ==
    {Col("Customer", "object"), Col("Customer_Name", "object"), Col("Geography", "object"),
     Col("Country", "object"), Col("Region", "object"), OldCol, PlanCol, EntityCol}

IdColumnLists ==
    UNION {{ids \in [1..n -> IdColumns] : \A i, j \in 1..n : ids[i] = ids[j] => i = j} :
              n \in 0..MaxIdColumns}

\* k monthly columns from January on, as Timestamps or as date strings, in
\* calendar order or in the reverse order
MonthColumns(k, style, reversed) ==
    [i \in 1..k |->
        IF style = "ts" THEN MonthCol(IF reversed THEN k + 1 - i ELSE i)
        ELSE DateStrCol(IF reversed THEN k + 1 - i ELSE i)]

\* a row with opening revenue q1 in March and closing revenue q2 in June; the
\* cell at 0 is the cell of a column that holds no month
DashRow(id, q1, q2) ==
    [Customer |-> Str(<<id>>),
     m |-> [j \in 0..MaxMonths |-> Number(IF j = 3 THEN q1 ELSE IF j = 6 THEN q2 ELSE 0)]]

DashTables ==
    {<<>>, <<DashRow("A", 0, 1)>>, <<DashRow("A", 1, 2), DashRow("B", 1, 0)>>}

\* the header the dashboard reads when the table has a Customer column, a
\* Country column and the monthly columns months
StandardColumns(months) ==
    <<Col("Customer", "object"), Col("Country", "object")>>
        \o [i \in DOMAIN months |-> MonthCol(months[i])]

(***************************************************************************)
(* Inputs of a session: the files uploaded in it, told apart by their      *)
(* header, and how often a file is parsed before the session ends          *)
(***************************************************************************)
MaxParses == 5

CacheHeaders == {StandardColumns(MonthlyCols), StandardColumns(<<1, 2, 3>>)}

(***************************************************************************)
(* Inputs of analyze_individual_customers_q1: one row per customer, Q1     *)
(* revenue of either sign, and the list of the N asked for                 *)
(***************************************************************************)
MaxTopCustomers == 4

TopRevenues == {<<0 - 1, 0>>, <<0, 0>>, <<1, 0>>, <<2, 0>>}

TopNLists == {<<5, 10, 15>>, <<1, 2, 3>>}

(***************************************************************************)
(* Parsing the uploaded file: pd.read_excel parses the content it is given *)
(* on every call, st.cache_data keeps the results of load_and_process_data *)
(* by its arguments                                                        *)
(***************************************************************************)
\* the content of the uploaded file: the header and the rows of Sheet1
content(cols, table) == <<cols, table>>

\* pd.read_excel(uploaded_file, sheet_name='Sheet1'): one more parse of c
read_excel(counts, c) ==
    IF c \in DOMAIN counts THEN [counts EXCEPT ![c] = @ + 1] ELSE counts @@ (c :> 1)

\* the key of a call load_and_process_data(uploaded_file, analysis_type)
cache_key(c, type) == <<c, type>>

\* @st.cache_data: the body runs, and parses the file, when the key is new
cached_read_excel(entries, counts, c, type) ==
    IF cache_key(c, type) \in entries THEN counts ELSE read_excel(counts, c)

NoParses == <<>>

(***************************************************************************)
(* The state machine: a table is uploaded, its columns are found, the      *)
(* bridge is computed on it and the page is drawn                          *)
(***************************************************************************)
NothingComputed ==
    /\ bridge_data = NoResult.bridge_data
    /\ customer_analysis = NoResult.customer_analysis
    /\ bridge_metrics = NoResult.bridge_metrics

NothingAnalysed ==
    /\ top_customers_analysis = NoAnalysis
    /\ all_customers_sorted = <<>>
    /\ top_customer_column = None

\* the Revenue Bridge page after it found the Customer column and the monthly
\* columns months in the header
ColumnsFound(months) ==
    /\ columns = StandardColumns(months)
    /\ analysis_type = "Revenue Bridge"
    /\ customer_column = "Customer"
    /\ monthly_cols_bridge = months
    /\ messages = {}
    /\ shown = {}
    /\ top_n_list = <<5, 10, 15>>
    /\ NothingAnalysed
    /\ cache = {}
    /\ parses = read_excel(NoParses, content(columns, df))

Init ==
    /\ df \in Tables
    /\ ColumnsFound(MonthlyCols)
    /\ pc = "uploaded"
    /\ NothingComputed

\* mutant of sufficient_data: five months are taken for two quarters
sufficient_data_five_months(monthly_cols, customer_col) ==
    Len(monthly_cols) >= 5 /\ customer_col # None

\* if len(monthly_cols_bridge) >= 6 and customer_column:
sufficient_data(monthly_cols, customer_col) ==
    Len(monthly_cols) >= 6 /\ customer_col # None

\* quarterly_mrr, quarterly_percentages, monthly_mrr =
\*     load_and_process_data(uploaded_file, analysis_type)
\* on the Geography and Industry pages; the page is drawn when the grouping
\* column exists (the quarterly tables themselves are not part of the bridge)
LoadAndProcessData ==
    /\ pc = "start"
    /\ analysis_type # "Revenue Bridge"
    /\ IF \E i \in DOMAIN drop_columns(columns) :
             /\ ~drop_columns(columns)[i].ts
             /\ drop_columns(columns)[i].name
                   = (IF analysis_type = "Geography" THEN "Country" ELSE "Industry")
       THEN pc' = "loaded" /\ messages' = messages
       ELSE pc' = "failed" /\ messages' = messages \cup {"grouping column not found"}
    /\ parses' = cached_read_excel(cache, parses, content(columns, df), analysis_type)
    /\ cache' = cache \cup {cache_key(content(columns, df), analysis_type)}
    /\ UNCHANGED <<bridge_vars, top_vars, columns, analysis_type, customer_column, shown>>

\* df_original = pd.read_excel(uploaded_file, sheet_name='Sheet1')
\* top_customers_analysis, all_customers_sorted, customer_column =
\*     analyze_individual_customers_q1(df_original)
\* in the Top Customers tab; a ValueError of the function is shown as an error
AnalyzeIndividualCustomers ==
    /\ pc = "loaded"
    /\ IF \/ customer_column_q1(drop_columns(columns)) = None
          \/ q1_cols(Keys(monthly_cols_sorted(drop_columns(columns)))) = <<>>
       THEN /\ messages' = messages \cup {"Error analyzing individual customers"}
            /\ UNCHANGED top_vars
       ELSE /\ \E s \in sort_values_descending(
                            q1_total(df, Keys(monthly_cols_sorted(drop_columns(columns))))) :
                  /\ all_customers_sorted' = s
                  /\ top_customers_analysis' = top_customers_analysis_of(s, top_n_list)
            /\ top_customer_column' = customer_column_q1(drop_columns(columns))
            /\ messages' = messages
            /\ UNCHANGED top_n_list
    /\ parses' = read_excel(parses, content(columns, df))
    /\ pc' = "analyzed"
    /\ UNCHANGED <<bridge_vars, columns, analysis_type, customer_column, shown, cache>>

\* the Revenue Bridge page and the Revenue Bridge tab: read the file, find the
\* customer column and the monthly columns of the table
DetectColumns ==
    /\ \/ analysis_type = "Revenue Bridge" /\ pc = "start"
       \/ analysis_type # "Revenue Bridge" /\ pc = "analyzed"
    /\ customer_column' = customer_column_bridge(drop_columns(columns))
    /\ monthly_cols_bridge' = Keys(monthly_cols_sorted(drop_columns(columns)))
    /\ parses' = read_excel(parses, content(columns, df))
    /\ pc' = "uploaded"
    /\ UNCHANGED <<df, bridge_data, customer_analysis, bridge_metrics, top_vars, columns,
                   analysis_type, messages, shown, cache>>

\* if len(monthly_cols_bridge) >= 6 and customer_column:
\*     bridge_data, customer_analysis, bridge_metrics =
\*         calculate_revenue_bridge(df_original, customer_column, monthly_cols_bridge)
CalculateRevenueBridge ==
    /\ pc = "uploaded"
    /\ sufficient_data(monthly_cols_bridge, customer_column)
    /\ LET r == calculate_revenue_bridge(df, monthly_cols_bridge)
       IN  /\ bridge_data' = r.bridge_data
           /\ customer_analysis' = r.customer_analysis
           /\ bridge_metrics' = r.bridge_metrics
    /\ df' = df_after_call(df, monthly_cols_bridge)
    /\ monthly_cols_bridge' = monthly_cols_after_call(monthly_cols_bridge)
    /\ pc' = "done"
    /\ UNCHANGED <<page_vars, top_vars, cache_vars>>

\* else: the page tells what is missing (st.error, st.warning) and computes
\* nothing
ShowInsufficientData ==
    /\ pc = "uploaded"
    /\ ~sufficient_data(monthly_cols_bridge, customer_column)
    /\ messages' =
          messages
          \cup (IF analysis_type = "Revenue Bridge"
                THEN {"Insufficient Data for Revenue Bridge Analysis"} ELSE {})
          \cup (IF Len(monthly_cols_bridge) < 6 THEN {"Missing Monthly Data"} ELSE {})
          \cup (IF customer_column = None THEN {"Missing Customer Column"} ELSE {})
    /\ pc' = "insufficient"
    /\ UNCHANGED <<bridge_vars, top_vars, cache_vars, columns, analysis_type, customer_column,
                   shown>>

\* the metrics drawn from the bridge: the page divides by Opening_Revenue_Q1
ShowBridgeRatios ==
    /\ pc = "done"
    /\ shown' = IF analysis_type = "Revenue Bridge" THEN bridge_page_ratios(bridge_data)
                ELSE preview_ratios(bridge_data)
    /\ pc' = "shown"
    /\ UNCHANGED <<bridge_vars, top_vars, cache_vars, columns, analysis_type, customer_column,
                   messages>>

Next == CalculateRevenueBridge

Spec == Init /\ [][Next]_vars

InitRank ==
    /\ \E n \in {k \in 0..MaxRanked : k <= Len(RankedIds)} :
          \E f \in [1..n -> RankedRevenues] : df = RankedTable(f)
    /\ ColumnsFound(MonthlyCols)
    /\ pc = "uploaded"
    /\ NothingComputed

SpecRank == InitRank /\ [][Next]_vars

InitSigned ==
    /\ \E n \in {k \in 0..MaxCustomers : k <= Len(RankedIds)} :
          \E f \in [1..n -> SignedRevenues] : df = RankedTable(f)
    /\ ColumnsFound(MonthlyCols)
    /\ pc = "uploaded"
    /\ NothingComputed

SpecSigned == InitSigned /\ [][Next]_vars

InitWide ==
    /\ \E n \in 0..MaxWideRows : df \in [1..n -> WideRows]
    /\ ColumnsFound(WideMonthlyCols)
    /\ pc = "uploaded"
    /\ NothingComputed

SpecWide == InitWide /\ [][Next]_vars

\* a file is uploaded and a page is chosen
InitDash ==
    /\ \E ids \in IdColumnLists : \E k \in 0..MaxMonths : \E style \in {"ts", "str"} :
          \E reversed \in BOOLEAN : columns = ids \o MonthColumns(k, style, reversed)
    /\ analysis_type \in {"Geography", "Revenue Bridge"}
    /\ df \in DashTables
    /\ monthly_cols_bridge = <<>>
    /\ customer_column = None
    /\ messages = {}
    /\ shown = {}
    /\ top_n_list = <<5, 10, 15>>
    /\ NothingAnalysed
    /\ NothingComputed
    /\ cache = {}
    /\ parses = NoParses
    /\ pc = "start"

NextDash ==
    \/ LoadAndProcessData
    \/ AnalyzeIndividualCustomers
    \/ DetectColumns
    \/ CalculateRevenueBridge
    \/ ShowInsufficientData
    \/ ShowBridgeRatios

SpecDash == InitDash /\ [][NextDash]_vars

\* the script runs again (a widget was used): another file or another page can
\* be chosen, what the last run computed is gone, the cache stays
Rerun ==
    /\ pc \in {"failed", "insufficient", "shown"}
    /\ \A c \in DOMAIN parses : parses[c] < MaxParses
    /\ columns' \in CacheHeaders
    /\ analysis_type' \in {"Geography", "Industry", "Revenue Bridge"}
    /\ monthly_cols_bridge' = <<>>
    /\ customer_column' = None
    /\ messages' = {}
    /\ shown' = {}
    /\ bridge_data' = NoResult.bridge_data
    /\ customer_analysis' = NoResult.customer_analysis
    /\ bridge_metrics' = NoResult.bridge_metrics
    /\ top_customers_analysis' = NoAnalysis
    /\ all_customers_sorted' = <<>>
    /\ top_customer_column' = None
    /\ pc' = "start"
    /\ UNCHANGED <<df, top_n_list, cache_vars>>

\* a session of the dashboard: a file is uploaded, pages are drawn, the script
\* is rerun
InitCache ==
    /\ columns \in CacheHeaders
    /\ analysis_type \in {"Geography", "Industry", "Revenue Bridge"}
    /\ df = <<Row("A", 1, 2)>>
    /\ monthly_cols_bridge = <<>>
    /\ customer_column = None
    /\ messages = {}
    /\ shown = {}
    /\ top_n_list = <<5, 10, 15>>
    /\ NothingAnalysed
    /\ NothingComputed
    /\ cache = {}
    /\ parses = NoParses
    /\ pc = "start"

NextCache == NextDash \/ Rerun

SpecCache == InitCache /\ [][NextCache]_vars

\* the Top Customers tab is about to be drawn
InitTop ==
    /\ \E n \in {k \in 0..MaxTopCustomers : k <= Len(RankedIds)} :
          \E f \in [1..n -> TopRevenues] : df = RankedTable(f)
    /\ top_n_list \in TopNLists
    /\ columns = StandardColumns(MonthlyCols)
    /\ analysis_type = "Geography"
    /\ customer_column = None
    /\ monthly_cols_bridge = <<>>
    /\ messages = {}
    /\ shown = {}
    /\ NothingAnalysed
    /\ NothingComputed
    /\ cache = {cache_key(content(columns, df), analysis_type)}
    /\ parses = read_excel(NoParses, content(columns, df))
    /\ pc = "loaded"

NextTop == AnalyzeIndividualCustomers

SpecTop == InitTop /\ [][NextTop]_vars

(***************************************************************************)
(* Properties of the result                                                *)
(***************************************************************************)
Done == pc = "done"

Customers == Range(customer_analysis)

\* every aggregated customer has non-negative opening and closing revenue
NonNegativeInput == \A r \in Customers : r.Q1_Revenue >= 0 /\ r.Q2_Revenue >= 0

\* the sum of the values of a set of (customer, value) pairs
RECURSIVE SumOver(_)
SumOver(S) ==
    IF S = {} THEN 0
    ELSE LET r == CHOOSE x \in S : TRUE IN r.v + SumOver(S \ {r})

\* the opening revenue, closing revenue and signed delta of a set of customers
Q1_Of(S) == {[c |-> r.Customer, v |-> r.Q1_Revenue] : r \in S}
Q2_Of(S) == {[c |-> r.Customer, v |-> r.Q2_Revenue] : r \in S}
Change_Of(S) == {[c |-> r.Customer, v |-> r.Q2_Revenue - r.Q1_Revenue] : r \in S}

\* an identifier that is null, empty or whitespace-only
IsBlankId(c) == c.null \/ \A i \in DOMAIN c.s : c.s[i] = " "

\* the distinct customer identifiers of the uploaded table
AggregatedCustomers ==
    {df[i].Customer : i \in {j \in DOMAIN df : ~IsBlankId(df[j].Customer)}}

Segments == {"Churned", "New Customer", "Expansion", "Contraction", "Stable"}

SegmentSet(seg) == {r.Customer : r \in {x \in Customers : x.Segment = seg}}

\* C1: identity law.  For customers with non-negative opening and closing
\* revenue, Opening_Revenue_Q1 + Churn + Expansion + Contraction + New_Customers
\* equals Closing_Revenue_Q2, with no residual.
C1_IdentityLaw ==
    (Done /\ NonNegativeInput) =>
        bridge_data.Opening_Revenue_Q1 + bridge_data.Churn + bridge_data.Expansion
            + bridge_data.Contraction + bridge_data.New_Customers
        = bridge_data.Closing_Revenue_Q2

C1_Witness ==
    /\ Done /\ NonNegativeInput /\ Len(df) <= MaxRows
    /\ bridge_data.Churn # 0 /\ bridge_data.Expansion # 0 /\ bridge_data.Contraction # 0

\* the classification of the specification: priority order, first match wins
classify(opening, closing) ==
    CASE opening > 0 /\ closing = 0 -> "Churned"
      [] ~(opening > 0 /\ closing = 0) /\ opening = 0 /\ closing > 0 -> "New Customer"
      [] ~(opening > 0 /\ closing = 0) /\ ~(opening = 0 /\ closing > 0)
            /\ closing > opening /\ opening > 0 -> "Expansion"
      [] ~(opening > 0 /\ closing = 0) /\ ~(opening = 0 /\ closing > 0)
            /\ ~(closing > opening /\ opening > 0)
            /\ closing < opening /\ closing > 0 -> "Contraction"
      [] OTHER -> "Stable"

\* C2: categorize_customer returns the segment of the priority-ordered rules (1)
\* to (5) for every pair of non-negative revenues; equal revenues, both positive
\* or both zero, give Stable.
C2_Classify ==
    Done =>
        \A r \in Customers :
            (r.Q1_Revenue >= 0 /\ r.Q2_Revenue >= 0) =>
                /\ r.Segment = classify(r.Q1_Revenue, r.Q2_Revenue)
                /\ (r.Q1_Revenue = r.Q2_Revenue => r.Segment = "Stable")

C2_Witness ==
    /\ Done /\ NonNegativeInput
    /\ \E r \in Customers : r.Q1_Revenue = 0 /\ r.Q2_Revenue = 0 /\ r.Segment = "Stable"
    /\ \E r \in Customers : r.Q1_Revenue > 0 /\ r.Q2_Revenue = r.Q1_Revenue
                                /\ r.Segment = "Stable"

\* C3: partition law.  Every aggregated customer appears exactly once in
\* customer_analysis, with exactly one of the five segments; the five segment
\* subsets are pairwise disjoint and their union is the set of aggregated customers.
C3_Partition ==
    Done =>
        /\ {r.Customer : r \in Customers} = AggregatedCustomers
        /\ \A i, j \in DOMAIN customer_analysis :
              customer_analysis[i].Customer = customer_analysis[j].Customer => i = j
        /\ \A r \in Customers : r.Segment \in Segments
        /\ \A a, b \in Segments : a # b => SegmentSet(a) \cap SegmentSet(b) = {}
        /\ UNION {SegmentSet(a) : a \in Segments} = AggregatedCustomers

C3_Witness ==
    /\ Done
    /\ Cardinality(AggregatedCustomers) = 2
    /\ Len(df) = MaxRows
    /\ \E i \in DOMAIN df : IsBlankId(df[i].Customer)
    /\ Cardinality({a \in Segments : SegmentSet(a) # {}}) = 2

\* C4: each bridge component is its restricted sum over the customers, the
\* period totals are the plain sums, Net_Change is closing minus opening.
C4_RestrictedSums ==
    Done =>
        /\ bridge_data.Churn =
              0 - SumOver(Q1_Of({r \in Customers : r.Q1_Revenue > 0 /\ r.Q2_Revenue = 0}))
        /\ bridge_data.New_Customers =
              SumOver(Q2_Of({r \in Customers : r.Q1_Revenue = 0 /\ r.Q2_Revenue > 0}))
        /\ bridge_data.Expansion =
              SumOver(Change_Of({r \in Customers :
                                    r.Q1_Revenue > 0 /\ r.Q2_Revenue > r.Q1_Revenue}))
        /\ bridge_data.Contraction =
              SumOver(Change_Of({r \in Customers :
                                    r.Q2_Revenue > 0 /\ r.Q2_Revenue < r.Q1_Revenue}))
        /\ bridge_data.Opening_Revenue_Q1 = SumOver(Q1_Of(Customers))
        /\ bridge_data.Closing_Revenue_Q2 = SumOver(Q2_Of(Customers))
        /\ bridge_data.Net_Change =
              bridge_data.Closing_Revenue_Q2 - bridge_data.Opening_Revenue_Q1

C4_Witness ==
    /\ Done /\ Len(df) <= MaxRows
    /\ bridge_metrics.expansion_customers_count = 2
    /\ bridge_data.New_Customers > 0
    /\ bridge_data.Net_Change # 0

\* C5: sign invariants.  With non-negative per-customer revenues Churn <= 0,
\* Contraction <= 0, Expansion >= 0 and New_Customers >= 0.
C5_Signs ==
    (Done /\ NonNegativeInput) =>
        /\ bridge_data.Churn <= 0
        /\ bridge_data.Contraction <= 0
        /\ bridge_data.Expansion >= 0
        /\ bridge_data.New_Customers >= 0

C5_Witness ==
    /\ Done /\ NonNegativeInput /\ Len(df) <= MaxRows
    /\ bridge_data.Churn < 0 /\ bridge_data.Contraction < 0 /\ bridge_data.New_Customers > 0

\* C6: zero-opening safety.  Whenever the opening total is 0, also when customers
\* exist, NRR and GRR are exactly 0, never nan or infinite.
C6_ZeroOpening ==
    (Done /\ bridge_data.Opening_Revenue_Q1 = 0) =>
        /\ bridge_data.NRR = Num(0)
        /\ bridge_data.GRR = Num(0)

C6_Witness ==
    /\ Done /\ NonNegativeInput
    /\ bridge_data.Opening_Revenue_Q1 = 0
    /\ bridge_data.New_Customers > 0
    /\ Len(customer_analysis) >= 2

\* C7: when the opening total is non-zero, NRR * opening_total = opening_total +
\* Churn + Expansion + Contraction and GRR * opening_total = opening_total +
\* Churn + Contraction.
C7_Ratios ==
    (Done /\ bridge_data.Opening_Revenue_Q1 # 0) =>
        /\ IsFinite(bridge_data.NRR)
        /\ IsFinite(bridge_data.GRR)
        /\ bridge_data.NRR.n * bridge_data.Opening_Revenue_Q1 =
              (bridge_data.Opening_Revenue_Q1 + bridge_data.Churn + bridge_data.Expansion
                  + bridge_data.Contraction) * bridge_data.NRR.d
        /\ bridge_data.GRR.n * bridge_data.Opening_Revenue_Q1 =
              (bridge_data.Opening_Revenue_Q1 + bridge_data.Churn
                  + bridge_data.Contraction) * bridge_data.GRR.d

C7_Witness ==
    /\ Done /\ NonNegativeInput /\ Len(df) <= MaxRows
    /\ bridge_data.Opening_Revenue_Q1 # 0
    /\ bridge_data.Expansion > 0
    /\ bridge_data.New_Customers > 0
    /\ bridge_data.Churn < 0

\* the row of customer id in the per-customer table has these revenues and segment
HasCustomer(id, q1, q2, seg) ==
    \E r \in Customers :
        /\ r.Customer = Str(<<id>>)
        /\ r.Q1_Revenue = q1 /\ r.Q2_Revenue = q2 /\ r.Segment = seg

\* C8: Example A.  A=(100,0), B=(0,50), C=(100,150), D=(100,80), E=(100,100) give
\* opening 400, closing 380, churn -100, new 50, expansion 50, contraction -20,
\* net change -20, the segments Churned, New Customer, Expansion, Contraction,
\* Stable, NRR = 330/400 and GRR = 280/400.
C8_ExampleA ==
    (Done /\ df = ExampleA) =>
        /\ bridge_data.Opening_Revenue_Q1 = 400
        /\ bridge_data.Closing_Revenue_Q2 = 380
        /\ bridge_data.Churn = 0 - 100
        /\ bridge_data.New_Customers = 50
        /\ bridge_data.Expansion = 50
        /\ bridge_data.Contraction = 0 - 20
        /\ bridge_data.Net_Change = 0 - 20
        /\ Len(customer_analysis) = 5
        /\ HasCustomer("A", 100, 0, "Churned")
        /\ HasCustomer("B", 0, 50, "New Customer")
        /\ HasCustomer("C", 100, 150, "Expansion")
        /\ HasCustomer("D", 100, 80, "Contraction")
        /\ HasCustomer("E", 100, 100, "Stable")
        /\ FloatEq(bridge_data.NRR, TrueDiv(330, 400))
        /\ FloatEq(bridge_data.NRR, TrueDiv(825, 1000))
        /\ FloatEq(bridge_data.GRR, TrueDiv(280, 400))
        /\ FloatEq(bridge_data.GRR, TrueDiv(70, 100))

C8_Witness == Done /\ df = ExampleA

\* C9: Example B.  For an empty customer set (no rows, or only rows with a blank
\* identifier) the bridge yields totals, components, net change, NRR and GRR all
\* 0, an empty per-customer table and segment counts 0.
C9_ExampleB ==
    (Done /\ \A i \in DOMAIN df : IsBlankId(df[i].Customer)) =>
        /\ bridge_data.Opening_Revenue_Q1 = 0
        /\ bridge_data.Closing_Revenue_Q2 = 0
        /\ bridge_data.Churn = 0
        /\ bridge_data.Expansion = 0
        /\ bridge_data.Contraction = 0
        /\ bridge_data.New_Customers = 0
        /\ bridge_data.Net_Change = 0
        /\ bridge_data.NRR = Num(0)
        /\ bridge_data.GRR = Num(0)
        /\ customer_analysis = <<>>
        /\ bridge_metrics.churned_customers_count = 0
        /\ bridge_metrics.new_customers_count = 0
        /\ bridge_metrics.expansion_customers_count = 0
        /\ bridge_metrics.contraction_customers_count = 0

C9_Witness ==
    /\ Done
    /\ Len(df) = MaxRows
    /\ \A i \in DOMAIN df : IsBlankId(df[i].Customer)
    /\ \E i \in DOMAIN df : df[i].Customer = Null
    /\ \E i \in DOMAIN df : df[i].Customer # Null

\* C10: in the per-customer table Change = closing - opening, Change_Pct =
\* Change / opening * 100 when opening # 0, and Change_Pct is exactly 0 when
\* opening = 0, whatever closing is.
C10_ChangePct ==
    Done =>
        \A r \in Customers :
            /\ r.Change = r.Q2_Revenue - r.Q1_Revenue
            /\ r.Q1_Revenue # 0 =>
                  /\ IsFinite(r.Change_Pct)
                  /\ r.Change_Pct.n * r.Q1_Revenue = r.Change * 100 * r.Change_Pct.d
            /\ r.Q1_Revenue = 0 => r.Change_Pct = Num(0)

C10_Witness ==
    /\ Done
    /\ \E r \in Customers : r.Q1_Revenue = 0 /\ r.Q2_Revenue > 0
    /\ \E r \in Customers : r.Q1_Revenue = 0 /\ r.Q2_Revenue = 0
    /\ \E r \in Customers : r.Q1_Revenue # 0 /\ r.Change # 0

\* the value a month cell contributes: its number, 0 when missing or no number
CellValue(cell) == IF cell.t = "num" THEN cell.v ELSE 0

\* the sum of months from..to over all rows of the table with the identifier c
RowsTotal(c, from, to) ==
    SumOver({[c |-> <<i, j>>, v |-> CellValue(df[i].m[j])] :
                i \in {k \in DOMAIN df : df[k].Customer = c}, j \in from..to})

\* C11: with negative opening or closing revenue the identity Opening_Revenue_Q1 +
\* Churn + Expansion + Contraction + New_Customers = Closing_Revenue_Q2 still holds.
C11_IdentityAnyInput ==
    Done =>
        bridge_data.Opening_Revenue_Q1 + bridge_data.Churn + bridge_data.Expansion
            + bridge_data.Contraction + bridge_data.New_Customers
        = bridge_data.Closing_Revenue_Q2

\* C12: aggregation contract.  One record per distinct customer identifier; its
\* opening revenue is the sum over its rows of the first three monthly columns,
\* its closing revenue the sum over its rows of the fourth to sixth.
C12_Aggregation ==
    Done =>
        /\ Len(customer_analysis) = Cardinality(AggregatedCustomers)
        /\ \A c \in AggregatedCustomers :
              \E r \in Customers :
                  /\ r.Customer = c
                  /\ r.Q1_Revenue = RowsTotal(c, 1, 3)
                  /\ r.Q2_Revenue = RowsTotal(c, 4, 6)

C12_Witness ==
    /\ Done /\ Len(df) = MaxRows
    /\ Len(customer_analysis) = 2
    /\ \E r \in Customers : r.Q1_Revenue = 3 /\ r.Q2_Revenue = 1
    /\ \E i \in DOMAIN df : df[i].m[3].t = "num" /\ df[i].m[3].v # 0

\* C13: after aggregation every customer's opening and closing revenue is defined
\* and non-negative, for every uploaded table.
C13_NonNegativeTotals ==
    Done =>
        \A r \in Customers : r.Q1_Revenue >= 0 /\ r.Q2_Revenue >= 0

\* the three values the call returned
Result ==
    [bridge_data |-> bridge_data,
     customer_analysis |-> customer_analysis,
     bridge_metrics |-> bridge_metrics]

HasMissingCell(row) == \E j \in DOMAIN row.m : row.m[j].t # "num"

\* the table with every missing or non-numeric month cell replaced by 0
ZeroFilled(table) ==
    [i \in DOMAIN table |->
        [Customer |-> table[i].Customer,
         m |-> [j \in DOMAIN table[i].m |-> Number(CellValue(table[i].m[j]))]]]

\* C14: a missing or non-numeric month cell contributes 0.  Replacing such cells
\* by 0 leaves the whole result unchanged, and the row is kept: its other months
\* still count in its customer's totals.
C14_MissingCellIsZero ==
    Done =>
        /\ Result = calculate_revenue_bridge(ZeroFilled(df), MonthlyCols)
        /\ \A i \in DOMAIN df :
              (HasMissingCell(df[i]) /\ ~IsBlankId(df[i].Customer)) =>
                  \E r \in Customers :
                      /\ r.Customer = df[i].Customer
                      /\ r.Q1_Revenue = RowsTotal(df[i].Customer, 1, 3)
                      /\ r.Q2_Revenue = RowsTotal(df[i].Customer, 4, 6)

C14_Witness ==
    /\ Done
    /\ \E i \in DOMAIN df :
          /\ df[i].m[2].t = "text" /\ ~IsBlankId(df[i].Customer)
          /\ \E r \in Customers : r.Customer = df[i].Customer /\ r.Q2_Revenue = 1
    /\ \E i \in DOMAIN df : df[i].m[1].t = "empty" /\ ~IsBlankId(df[i].Customer)

\* the table without the rows whose identifier is null, empty or whitespace-only
WithoutBlankRows(table) == SelectSeq(table, LAMBDA r : ~IsBlankId(r.Customer))

\* C15: rows whose customer identifier is null, empty or whitespace-only are
\* dropped: they create no customer record and contribute nothing to any total
\* or component, whatever revenue they carry.
C15_BlankRowsDropped ==
    Done =>
        /\ Result = calculate_revenue_bridge(WithoutBlankRows(df), MonthlyCols)
        /\ \A r \in Customers : ~IsBlankId(r.Customer)

C15_Witness ==
    /\ Done /\ Len(df) = MaxRows
    /\ \E i \in DOMAIN df : df[i].Customer = Null /\ CellValue(df[i].m[1]) > 0
    /\ \E i \in DOMAIN df : df[i].Customer = Str(<<" ">>) /\ CellValue(df[i].m[4]) > 0
    /\ Len(customer_analysis) = 1

\* the table with rows i and i + 1 exchanged
SwapRows(table, i) ==
    [k \in DOMAIN table |->
        IF k = i THEN table[i + 1] ELSE IF k = i + 1 THEN table[i] ELSE table[k]]

\* C16: row-order invariance.  Rows sharing an identifier are summed into one
\* record, and exchanging rows of the table changes no output (every permutation
\* is a product of exchanges of neighbours).
C16_RowOrder ==
    Done =>
        /\ \A i \in 1..(Len(df) - 1) :
              Result = calculate_revenue_bridge(SwapRows(df, i), MonthlyCols)
        /\ \A i, j \in DOMAIN customer_analysis :
              customer_analysis[i].Customer = customer_analysis[j].Customer => i = j

C16_Witness ==
    /\ Done /\ Len(df) = MaxRows
    /\ df[1].Customer = Str(<<"B">>) /\ df[2].Customer = Str(<<"A">>)
    /\ df[3].Customer = Str(<<"B">>)
    /\ df[1].m # df[3].m
    /\ bridge_metrics.expansion_customers_count = 1

\* the (customer, delta) pairs of the customers labelled with a segment
DeltasOf(seg) ==
    {[Customer |-> r.Customer, v |-> r.Change] : r \in {x \in Customers : x.Segment = seg}}

Smaller(a, b) == IF a < b THEN a ELSE b

\* top holds the Smaller(TopK, |S|) members of S with the extreme deltas, the
\* largest first when sign = 1, the smallest first when sign = -1
IsRanking(top, S, sign) ==
    /\ Len(top) = Smaller(TopK, Cardinality(S))
    /\ \A i \in DOMAIN top : top[i] \in S
    /\ \A i, j \in DOMAIN top : i < j =>
          /\ top[i].Customer # top[j].Customer
          /\ sign * top[i].v >= sign * top[j].v
    /\ \A e \in S \ Range(top) : \A i \in DOMAIN top : sign * e.v <= sign * top[i].v

\* C17: top_expansion_customers holds the min(K, number of Expansion customers)
\* customers with the largest positive delta among the Expansion customers, in
\* descending order; top_contraction_customers the min(K, number of Contraction
\* customers) with the most negative delta among the Contraction customers, in
\* ascending order; no customer of another segment is in either list (K = 5).
C17_Rankings ==
    Done =>
        /\ IsRanking(bridge_metrics.top_expansion_customers, DeltasOf("Expansion"), 1)
        /\ \A i \in DOMAIN bridge_metrics.top_expansion_customers :
              bridge_metrics.top_expansion_customers[i].v > 0
        /\ IsRanking(bridge_metrics.top_contraction_customers, DeltasOf("Contraction"),
                     0 - 1)
        /\ \A i \in DOMAIN bridge_metrics.top_contraction_customers :
              bridge_metrics.top_contraction_customers[i].v < 0

C17_Witness ==
    /\ Done
    /\ Cardinality(DeltasOf("Expansion")) > TopK
    /\ Len(bridge_metrics.top_expansion_customers) = TopK
    /\ bridge_metrics.top_expansion_customers[1].v
          # bridge_metrics.top_expansion_customers[TopK].v

\* the place of a customer in the sequence of aggregated customers
PlaceOf(c) == CHOOSE i \in DOMAIN customer_analysis : customer_analysis[i].Customer = c

\* equal deltas keep the order of the aggregated customers, in the list and
\* across its end
IsStable(top, S) ==
    /\ \A i, j \in DOMAIN top :
          (i < j /\ top[i].v = top[j].v) =>
              PlaceOf(top[i].Customer) < PlaceOf(top[j].Customer)
    /\ \A e \in S \ Range(top) : \A i \in DOMAIN top :
          e.v = top[i].v => PlaceOf(top[i].Customer) < PlaceOf(e.Customer)

\* C18: ranking stability.  Customers with an identical delta appear in the
\* top-expansion list, and in the top-contraction list, in the order of the
\* engine's input sequence (the aggregated customers), never the reverse; when a
\* tie straddles the K-th place the earlier customer is kept.
C18_RankingStability ==
    Done =>
        /\ IsStable(bridge_metrics.top_expansion_customers, DeltasOf("Expansion"))
        /\ IsStable(bridge_metrics.top_contraction_customers, DeltasOf("Contraction"))

C18_Witness ==
    /\ Done
    /\ Len(bridge_metrics.top_expansion_customers) = TopK
    /\ \E e \in DeltasOf("Expansion") \ Range(bridge_metrics.top_expansion_customers) :
          e.v = bridge_metrics.top_expansion_customers[TopK].v
    /\ bridge_metrics.top_expansion_customers[1].v
          = bridge_metrics.top_expansion_customers[2].v

Aggregated ==
    [i \in DOMAIN customer_analysis |->
        [Customer |-> customer_analysis[i].Customer,
         Q1_Total |-> customer_analysis[i].Q1_Revenue,
         Q2_Total |-> customer_analysis[i].Q2_Revenue]]

\* the customers of the grouped table that the assignment a puts in shard s
Shard(g, a, s) == Masked(g, [i \in DOMAIN g |-> a[i] = s])

\* the six additive components of the bridge
Components ==
    {"Opening_Revenue_Q1", "Closing_Revenue_Q2", "Churn", "Expansion", "Contraction",
     "New_Customers"}

MaxShards == 2

\* one component of the bridge, computed on one shard alone
ShardComponent(g, c) ==
    CASE c = "Opening_Revenue_Q1" -> opening_revenue(g)
      [] c = "Closing_Revenue_Q2" -> closing_revenue(g)
      [] c = "Churn" -> churn_of(churned_customers(g))
      [] c = "Expansion" -> SumSeq(Values(expanded(g)))
      [] c = "Contraction" -> SumSeq(Values(contracted(g)))
      [] c = "New_Customers" -> SumSeq(Values(new_customers_data(g)))

\* C21: shard additivity.  For every split of the aggregated customers into
\* MaxShards disjoint shards (some possibly empty, so every smaller number of
\* shards is covered, and every numbering of the shards, so every order of
\* combining them), each of the opening total, closing total, churn, expansion,
\* contraction and new-customer revenue of the whole set is the sum of the same
\* component computed on each shard alone.
C21_ShardAdditivity ==
    Done =>
        \A a \in [DOMAIN Aggregated -> 1..MaxShards] : \A c \in Components :
            bridge_data[c]
                = SumSeq([s \in 1..MaxShards |-> ShardComponent(Shard(Aggregated, a, s), c)])

C21_Witness ==
    /\ Done
    /\ Len(customer_analysis) = MaxCustomers
    /\ {"Churned", "New Customer", "Expansion"} \subseteq {r.Segment : r \in Customers}
    /\ bridge_data.Churn < 0 /\ bridge_data.Expansion > 0 /\ bridge_data.New_Customers > 0

\* the rows of the per-customer table labelled with a segment
Labelled(seg) == {r \in Customers : r.Segment = seg}

\* C24: the aggregate subsets and the per-customer labels agree.  Each of the
\* four counts of bridge_metrics is the number of rows of customer_analysis
\* with that label, the four counts and the number of Stable rows add up to
\* the number of customers, and for non-negative input each component of the
\* bridge is the sum of Change over the rows with its label (the Stable rows
\* contribute to no component).
C24_CountsMatchLabels ==
    Done =>
        /\ bridge_metrics.churned_customers_count = Cardinality(Labelled("Churned"))
        /\ bridge_metrics.new_customers_count = Cardinality(Labelled("New Customer"))
        /\ bridge_metrics.expansion_customers_count = Cardinality(Labelled("Expansion"))
        /\ bridge_metrics.contraction_customers_count
              = Cardinality(Labelled("Contraction"))
        /\ bridge_metrics.churned_customers_count + bridge_metrics.new_customers_count
              + bridge_metrics.expansion_customers_count
              + bridge_metrics.contraction_customers_count
              + Cardinality(Labelled("Stable")) = Len(customer_analysis)
        /\ NonNegativeInput =>
              /\ bridge_data.Churn = SumOver(Change_Of(Labelled("Churned")))
              /\ bridge_data.New_Customers = SumOver(Change_Of(Labelled("New Customer")))
              /\ bridge_data.Expansion = SumOver(Change_Of(Labelled("Expansion")))
              /\ bridge_data.Contraction = SumOver(Change_Of(Labelled("Contraction")))

C24_Witness ==
    /\ Done /\ NonNegativeInput
    /\ bridge_metrics.churned_customers_count = 1
    /\ bridge_metrics.contraction_customers_count = 1
    /\ Cardinality(Labelled("Stable")) = 1
    /\ \E r \in Labelled("Stable") : r.Q1_Revenue = 0 /\ r.Q2_Revenue = 0

\* x <= y on finite floats
FloatLeq(x, y) ==
    /\ IsFinite(x) /\ IsFinite(y)
    /\ x.n * x.d * y.d * y.d <= y.n * y.d * x.d * x.d

\* C25: for non-negative revenues and a positive opening total the retention
\* ratios are bounded and ordered: 0 <= GRR <= 1, GRR <= NRR, and
\* NRR * opening_total = closing_total - New_Customers, so NRR >= 0.
C25_RatioBounds ==
    (Done /\ NonNegativeInput /\ bridge_data.Opening_Revenue_Q1 > 0) =>
        /\ FloatLeq(Num(0), bridge_data.GRR)
        /\ FloatLeq(bridge_data.GRR, Num(1))
        /\ FloatLeq(bridge_data.GRR, bridge_data.NRR)
        /\ FloatLeq(Num(0), bridge_data.NRR)
        /\ bridge_data.NRR.n * bridge_data.Opening_Revenue_Q1
              = (bridge_data.Closing_Revenue_Q2 - bridge_data.New_Customers)
                    * bridge_data.NRR.d

C25_Witness ==
    /\ Done /\ NonNegativeInput
    /\ bridge_data.Opening_Revenue_Q1 > 0
    /\ bridge_data.Churn < 0 /\ bridge_data.Expansion > 0
    /\ bridge_data.New_Customers > 0
    /\ ~FloatLeq(bridge_data.NRR, bridge_data.GRR)
    /\ ~FloatLeq(Num(1), bridge_data.GRR)

\* the label of the first rule of the chain, in the order p, whose test holds
RECURSIVE FirstMatch(_, _)
FirstMatch(rules, p) ==
    IF p = <<>> THEN "Stable"
    ELSE IF rules[Head(p)].test THEN rules[Head(p)].label
    ELSE FirstMatch(rules, Tail(p))

\* the orders in which the four rules can be tested
RuleOrders == {p \in [1..4 -> 1..4] : \A i, j \in 1..4 : p[i] = p[j] => i = j}

\* the number of the four aggregate masks that select a customer
MasksSelecting(q1, q2) ==
    Cardinality({m \in 1..4 :
        <<churned_mask(q1, q2), new_mask(q1, q2), expansion_mask(q1, q2),
          contraction_mask(q1, q2)>>[m]})

\* C27: the four non-Stable tests of categorize_customer are pairwise mutually
\* exclusive for every pair of revenues, negative ones included: the segment
\* of every customer is the one every order of the tests assigns, and no
\* customer is selected by two of the masks of churn, new customers, expansion
\* and contraction.
C27_RulesExclusive ==
    Done =>
        \A r \in Customers :
            /\ \A i, j \in 1..4 :
                  (categorize_rules(r)[i].test /\ categorize_rules(r)[j].test) => i = j
            /\ \A p \in RuleOrders : FirstMatch(categorize_rules(r), p) = r.Segment
            /\ MasksSelecting(r.Q1_Revenue, r.Q2_Revenue) <= 1

C27_Witness ==
    /\ Done
    /\ \E r \in Customers : r.Q1_Revenue < 0 /\ r.Q2_Revenue > 0
    /\ \E r \in Customers : r.Q1_Revenue > 0 /\ r.Q2_Revenue < 0
    /\ \E r \in Customers : r.Segment = "Expansion"

\* the table with the cell of month j of row i replaced by c
WithCell(table, i, j, c) == [table EXCEPT ![i].m[j] = c]

\* C28: only the first six monthly columns influence the bridge.  With more
\* than six monthly columns, replacing the cell of a seventh or later month of
\* any row by any value changes no field of bridge_data, customer_analysis or
\* bridge_metrics (every change of the later months is a sequence of such
\* replacements), and a customer with revenue only in the later months still
\* has a row, labelled Stable, with opening and closing revenue 0.
C28_FirstSixMonths ==
    (Done /\ Len(monthly_cols_bridge) > 6) =>
        /\ \A i \in DOMAIN df : \A j \in 7..Len(df[i].m) : \A c \in LateCells :
              Result = calculate_revenue_bridge(WithCell(df, i, j, c), monthly_cols_bridge)
        /\ \A i \in DOMAIN df :
              (/\ ~IsBlankId(df[i].Customer)
               /\ RowsTotal(df[i].Customer, 1, 6) = 0
               /\ RowsTotal(df[i].Customer, 7, Len(df[i].m)) > 0) =>
                  \E r \in Customers :
                      /\ r.Customer = df[i].Customer
                      /\ r.Q1_Revenue = 0 /\ r.Q2_Revenue = 0
                      /\ r.Segment = "Stable"

C28_Witness ==
    /\ Done /\ Len(monthly_cols_bridge) = 7 /\ Len(df) = MaxWideRows
    /\ df[1].Customer = Str(<<"A">>) /\ df[1].m[7] = Number(5)
    /\ RowsTotal(Str(<<"A">>), 1, 6) = 0
    /\ df[2].Customer = Str(<<"B">>) /\ df[2].m[7] = Text
    /\ bridge_metrics.expansion_customers_count = 1
    /\ \E r \in Customers : r.Customer = Str(<<"A">>) /\ r.Segment = "Stable"

(***************************************************************************)
(* C22: when fewer than 6 monthly columns are detected or no customer      *)
(* column is found, the pages compute no bridge and show one message per   *)
(* missing requirement (the months message exactly when months are         *)
(* missing, the customer message exactly when the customer column is       *)
(* missing); calculate_revenue_bridge has only been called with at least 6 *)
(* monthly columns and a customer column.                                  *)
(***************************************************************************)
Detected == pc \in {"uploaded", "insufficient", "done", "shown"}

MissingMonths == Len(monthly_cols_bridge) < 6

MissingCustomer == customer_column = None

C22_InsufficientDataSurfaced ==
    /\ (Detected /\ (MissingMonths \/ MissingCustomer)) =>
          /\ pc \in {"uploaded", "insufficient"}
          /\ NothingComputed
          /\ shown = {}
    /\ pc = "insufficient" =>
          /\ MissingMonths \/ MissingCustomer
          /\ "Missing Monthly Data" \in messages <=> MissingMonths
          /\ "Missing Customer Column" \in messages <=> MissingCustomer
          /\ analysis_type = "Revenue Bridge" =>
                "Insufficient Data for Revenue Bridge Analysis" \in messages
    /\ pc \in {"done", "shown"} =>
          /\ Len(monthly_cols_bridge) >= 6 /\ customer_column # None
          /\ messages \cap {"Missing Monthly Data", "Missing Customer Column",
                            "Insufficient Data for Revenue Bridge Analysis"} = {}

\* five monthly columns and no customer column: both messages, no bridge
C22_Witness ==
    /\ pc = "insufficient"
    /\ Len(monthly_cols_bridge) = 5
    /\ customer_column = None
    /\ Len(df) = 2
    /\ {"Missing Monthly Data", "Missing Customer Column"} \subseteq messages
    /\ NothingComputed

(***************************************************************************)
(* C26: every ratio the dashboard derives from the bridge relative to the  *)
(* opening revenue (net-change percent, churn rate, '% of Q1') is a finite *)
(* number, also when Opening_Revenue_Q1 is 0.                              *)
(***************************************************************************)
C26_RatiosFinite == \A r \in shown : IsFinite(r.value)

(***************************************************************************)
(* C30: whenever the Top Customers analysis and the Revenue Bridge flow    *)
(* both found a customer column in the uploaded table, it is the same      *)
(* column.                                                                 *)
(***************************************************************************)
C30_SameCustomerColumn ==
    (Detected /\ top_customer_column # None /\ customer_column # None) =>
        customer_column = top_customer_column

(***************************************************************************)
(* C29: for non-negative Q1 revenues and every N of the requested list,    *)
(* the entry of N holds min(N, number of customers) customers, they are    *)
(* the customers with the largest Q1 totals in descending order,           *)
(* percentage_of_total is top-N revenue / total Q1 revenue * 100 when the  *)
(* total is > 0 and 0 otherwise, it lies in [0, 100], and it is            *)
(* non-decreasing in N.                                                    *)
(***************************************************************************)
Analyzed == pc = "analyzed" /\ top_customer_column # None

TableCustomers == {df[i].Customer : i \in DOMAIN df}

\* the Q1 total of each customer, read from the cells of the table
Q1Totals == {[Customer |-> c, v |-> RowsTotal(c, 1, 3)] : c \in TableCustomers}

TotalQ1 == SumOver({[c |-> t.Customer, v |-> t.v] : t \in Q1Totals})

NonNegativeQ1 == \A t \in Q1Totals : t.v >= 0

Smallest(a, b) == IF a <= b THEN a ELSE b

C29_TopCustomers ==
    (Analyzed /\ NonNegativeQ1) =>
        /\ \A n \in Range(top_n_list) :
              LET e == top_customers_analysis[n]
                  top == Range(e.customers)
              IN  /\ e.count = Smallest(n, Cardinality(TableCustomers))
                  /\ Len(e.customers) = e.count
                  /\ Cardinality(top) = e.count
                  /\ top \subseteq Q1Totals
                  /\ \A t \in top : \A u \in Q1Totals \ top : t.v >= u.v
                  /\ \A i, j \in DOMAIN e.customers :
                        i < j => e.customers[i].v >= e.customers[j].v
                  /\ e.total_revenue = SumOver({[c |-> t.Customer, v |-> t.v] : t \in top})
                  /\ IF TotalQ1 > 0
                     THEN FloatEq(e.percentage_of_total,
                                  TrueDiv(e.total_revenue * 100, TotalQ1))
                     ELSE e.percentage_of_total = Num(0)
                  /\ FloatLeq(Num(0), e.percentage_of_total)
                  /\ FloatLeq(e.percentage_of_total, Num(100))
        /\ \A n1, n2 \in Range(top_n_list) :
              n1 <= n2 => FloatLeq(top_customers_analysis[n1].percentage_of_total,
                                   top_customers_analysis[n2].percentage_of_total)

\* four customers with Q1 totals 2, 1, 1, 0 and the list 1, 2, 3: the top 1
\* holds half of the revenue, the top 2 one of the two tied customers
C29_Witness ==
    /\ Analyzed /\ NonNegativeQ1
    /\ top_n_list = <<1, 2, 3>>
    /\ Cardinality(TableCustomers) = MaxTopCustomers
    /\ TotalQ1 = 4
    /\ top_customers_analysis[1].count = 1
    /\ FloatEq(top_customers_analysis[1].percentage_of_total, Num(50))
    /\ top_customers_analysis[2].count = 2
    /\ top_customers_analysis[2].customers[2].Customer = Str(<<"E">>)
    /\ FloatEq(top_customers_analysis[3].percentage_of_total, Num(100))

(***************************************************************************)
(* C23: over any sequence of reruns, and within one run across the         *)
(* summary, Top Customers and Revenue Bridge views, a file with the same   *)
(* content is parsed at most once.                                         *)
(***************************************************************************)
C23_ParsedAtMostOnce == \A c \in DOMAIN parses : parses[c] <= 1

====
